---- MODULE Spec2Model ----
(***************************************************************************)
(* GeoMemo: geospatial discovery and dual-mode persistence.                *)
(*                                                                         *)
(* Coordinates are integers in units of 1/DegUnits degree, i.e. one unit   *)
(* is one metre of meridian arc on the sphere haversine() uses.  Times are *)
(* milliseconds, as Date.now() returns them.  Free-text fields of a post   *)
(* (memo, photoUrl, image_type) take part in no decision and are left out. *)
(***************************************************************************)
EXTENDS Integers, Sequences, FiniteSets, TLC

\* ------------------------------------------------------------------ bounds
MaxPosts == 2
MaxRemote == 1
MaxInflight == 2
MaxTicks == 1
MaxTips == 2
MaxListeners == 2
MaxTipTotal == 1
MaxCandidates == 2
MaxPrecision == 7
MaxPending == 2

\* --------------------------------------------------------------- constants
\* R * pi / 180 for R = 6371e3, rounded: metres of arc per degree.
DegUnits == 111195
LonSpan == 360 * DegUnits
LatSpan == 180 * DegUnits

HOUR == 3600000
DAY == 86400000
TTL == 7 * 24 * 60 * 60 * 1000
DemoSubmitTTL == 24 * 60 * 60 * 1000
RealRadius == 1000
\* README, Development Notes: "Discovery radius is 100 meters".
DemoRadius == 100

\* createMockPosts: 0.0002, 0.0002, -0.0003, -0.0001 degrees in units.
MockDLat1 == 22
MockDLon1 == 22
MockDLat2 == -33
MockDLon2 == -11

NowInit == 100000000
ViewerLats == {0, 1}
PostLats == {100, 101}
RemoteLats == {1000, 1001}
StoreLats == {100}
StoreViewerLats == {0}
StoreAmounts == {0, 1}
AnyAmounts == {-1, 0, 1}
LON0 == 0
Accounts == {"acctA", "acctB"}
Submitters == {"acctA"}
Modes == {"demo", "real"}
TickSteps == {DAY, TTL}
UserIds == [n \in 1..9 |-> <<"u1", "u2", "u3", "u4", "u5", "u6", "u7", "u8", "u9">>[n]]
RemoteIds == [n \in 1..9 |-> <<"r1", "r2", "r3", "r4", "r5", "r6", "r7", "r8", "r9">>[n]]

\* ----------------------------------------------------------------- helpers
Abs(x) == IF x < 0 THEN 0 - x ELSE x

\* Math.sqrt rounded down, by bisection: lo * lo <= x < hi * hi throughout.
RECURSIVE ISqrtBetween(_, _, _)
ISqrtBetween(x, lo, hi) ==
    IF hi - lo <= 1 THEN lo
    ELSE LET mid == (lo + hi) \div 2
         IN  IF mid * mid <= x THEN ISqrtBetween(x, mid, hi)
                               ELSE ISqrtBetween(x, lo, mid)
ISqrt(x) == ISqrtBetween(x, 0, 46341)

\* An account: `address` is the wallet's Base64EncodedAddress, and
\* publicKey.toBase58() is the base-58 text of the same key bytes.  The two
\* encodings of one key are different strings.
Address(a) == IF a = "acctA" THEN "b64:acctA=" ELSE "b64:acctB="
ToBase58(a) == IF a = "acctA" THEN "b58:acctA" ELSE "b58:acctB"

\* haversine(lat1, lon1, lat2, lon2) in metres.  On one meridian (lon1 = lon2)
\* a = sin^2(dphi/2) and R*2*atan2(sqrt a, sqrt(1-a)) = R*|dphi|, the arc
\* itself.  Off the meridian the model stays within 2 km of the equator, where
\* cos(phi1)*cos(phi2) = 1 to 1e-7 and the arcs are small, so the value is the
\* length of the hypotenuse, rounded down to a metre.
HaversineDirected(lat1, lon1, lat2, lon2) ==
    IF lon1 = lon2 THEN lat2 - lat1
    ELSE ISqrt((lat2 - lat1) * (lat2 - lat1) + (lon2 - lon1) * (lon2 - lon1))
Haversine(lat1, lon1, lat2, lon2) ==
    IF lon1 = lon2 THEN Abs(lat2 - lat1)
    ELSE ISqrt((lat2 - lat1) * (lat2 - lat1) + (lon2 - lon1) * (lon2 - lon1))

\* ------------------------------------------------------------ geohash codec
Chars == << "0", "1", "2", "3", "4", "5", "6", "7", "8", "9", "b", "c", "d", "e", "f", "g",
            "h", "j", "k", "m", "n", "p", "q", "r", "s", "t", "u", "v", "w", "x", "y", "z" >>

\* The bisection of encodeGeohash in scaled variables: r = (x - min) * 2^k
\* after k halvings of a range of width span, so that x >= mid, the test of
\* the code, is 2r >= span, and the new r is 2r - span (min moved to mid) or
\* 2r (max moved to mid).  r is kept within [-1, span]: outside the range the
\* code's comparison has the same answer at every later step.
BitStrict(r, span) == IF 2 * r > span THEN 1 ELSE 0
Bit(r, span) == IF 2 * r >= span THEN 1 ELSE 0
Narrow(r, span) ==
    IF 2 * r >= span
    THEN (IF 2 * r - span >= span THEN span ELSE 2 * r - span)
    ELSE (IF r < 0 THEN -1 ELSE 2 * r)

RECURSIVE GeohashLoop(_, _, _, _, _, _, _)
GeohashLoop(rLat, rLon, isEven, i, charIndex, geohash, precision) ==
    IF i = 0 /\ Len(geohash) >= precision THEN geohash
    ELSE IF i = 5
    THEN GeohashLoop(rLat, rLon, isEven, 0, 0, Append(geohash, Chars[charIndex + 1]), precision)
    ELSE IF isEven
    THEN GeohashLoop(rLat, Narrow(rLon, LonSpan), FALSE, i + 1,
                     charIndex * 2 + Bit(rLon, LonSpan), geohash, precision)
    ELSE GeohashLoop(Narrow(rLat, LatSpan), rLon, TRUE, i + 1,
                     charIndex * 2 + Bit(rLat, LatSpan), geohash, precision)

EncodeGeohashOneShort(lat, lon, precision) ==
    GeohashLoop(lat + 90 * DegUnits, lon + 180 * DegUnits, TRUE, 0, 0, << >>, precision - 1)

EncodeLatFirst(lat, lon, precision) ==
    GeohashLoop(lat + 90 * DegUnits, lon + 180 * DegUnits, FALSE, 0, 0, << >>, precision)

EncodeGeohash(lat, lon, precision) ==
    GeohashLoop(lat + 90 * DegUnits, lon + 180 * DegUnits, TRUE, 0, 0, << >>, precision)

\* The copies of encodeGeohash in IrysService and SupabaseService: the same
\* statements as MapScreen's.
IrysEncodeGeohash(lat, lon, precision) ==
    GeohashLoop(lat + 90 * DegUnits, lon + 180 * DegUnits, TRUE, 0, 0, << >>, precision)

SupabaseEncodeGeohash(lat, lon, precision) ==
    GeohashLoop(lat + 90 * DegUnits, lon + 180 * DegUnits, TRUE, 0, 0, << >>, precision)

StartsWith(s, prefix) ==
    Len(prefix) <= Len(s) /\ SubSeq(s, 1, Len(prefix)) = prefix

\* The ILIKE operator of the posts table: letters match without regard to
\* case, "_" in the pattern matches any one character and "%" any run of them.
UpperLetters == << "A", "B", "C", "D", "E", "F", "G", "H", "I", "J", "K", "L", "M",
                   "N", "O", "P", "Q", "R", "S", "T", "U", "V", "W", "X", "Y", "Z" >>
LowerLetters == << "a", "b", "c", "d", "e", "f", "g", "h", "i", "j", "k", "l", "m",
                   "n", "o", "p", "q", "r", "s", "t", "u", "v", "w", "x", "y", "z" >>
ToLower(c) ==
    IF \E k \in 1..26 : UpperLetters[k] = c
    THEN LowerLetters[CHOOSE k \in 1..26 : UpperLetters[k] = c]
    ELSE c

RECURSIVE ILike(_, _)
ILike(text, pattern) ==
    IF pattern = << >> THEN text = << >>
    ELSE IF Head(pattern) = "%"
    THEN ILike(text, Tail(pattern)) \/ (text # << >> /\ ILike(Tail(text), pattern))
    ELSE /\ text # << >>
         /\ (Head(pattern) = "_" \/ ToLower(Head(pattern)) = ToLower(Head(text)))
         /\ ILike(Tail(text), Tail(pattern))


\* ------------------------------------------------------------------ state
VARIABLES
    now,                \* Date.now()
    ticks,              \* clock advances so far (bounded by MaxTicks)
    mode,               \* AppModeContext mode
    userCreatedPosts,   \* demoPostStore: user-created posts, newest first
    listeners,          \* demoPostStore: registered listeners, in order
    location,           \* MapScreen state `location` (<< >> is null)
    latestLocation,     \* MapScreen ref latestLocation.current
    postsGenerated,     \* MapScreen effect-local flag
    posts,              \* MapScreen state `posts`: the displayed list
    isLoadingRealPosts, \* MapScreen state
    inflight,           \* real-mode updatePosts calls awaiting the backend
    irysPosts,          \* post transactions held by the Irys node
    irysCreated,        \* metadata objects built by IrysService.createPost
    supabasePosts,      \* rows of the Supabase `posts` table
    profilePosts,       \* ProfileScreen state `posts` (ids)
    deleted,            \* ids whose deletion the creator confirmed
    lastRefresh,        \* what the last handler did to the displayed list
    prevPosts,          \* the displayed list before a backend response was applied
    latestDone,         \* the most recently issued refresh has completed
    latestResult,       \* ... and this is the list it computed
    candidates          \* the posts the last completed refresh had before filter and sort

discoveryVars == << now, ticks, mode, userCreatedPosts, listeners, location,
                    latestLocation, postsGenerated, posts, isLoadingRealPosts,
                    inflight, irysPosts, irysCreated, supabasePosts, profilePosts,
                    deleted, lastRefresh, prevPosts, latestDone, latestResult,
                    candidates >>

VARIABLES
    selectedAccount,    \* useAuthorization().selectedAccount (<< >> is none)
    currentPost,        \* PostDetailScreen route parameter `post` (<< >> is none)
    tipAmount,          \* PostDetailScreen state: the text of the amount field
    isTipping,          \* PostDetailScreen state
    skrBalance,         \* PostDetailScreen state (<< >> is null, else uiAmount)
    tipPc,              \* where the running handleTip is suspended
    tipLocal,           \* handleTip's locals: amount, tipper
    transfers,          \* token transfers the wallet signed and sent
    tipsTable,          \* rows of the Supabase `tips` table
    alert,              \* title of the last Alert.alert of handleTip
    tipOps,             \* handleTip calls so far (bounded by MaxTips)
    tipOp               \* what the last handleTip call has done so far

tipVars == << selectedAccount, currentPost, tipAmount, isTipping, skrBalance, tipPc,
              tipLocal, transfers, tipsTable, alert, tipOps, tipOp >>

VARIABLES
    calls,              \* listener -> its invocations by the last store call
    seen,               \* listener -> what getPosts() returned when that call invoked it
    storeOp,            \* the last call on demoPostStore and its arguments
    round               \* a listeners.forEach in progress: the rest of the array it
                        \* iterates, and the listener it called last

storeVars == << calls, seen, storeOp, round >>

VARIABLES
    geoOut              \* the last call of encodeGeohash or haversine and its result

geoVars == << geoOut >>

VARIABLES
    storage,            \* AsyncStorage item MODE_STORAGE_KEY (<< >> is absent)
    hasSelectedMode,    \* AppModeContext state
    isLoading,          \* AppModeContext state
    pendingModes,       \* setMode calls awaiting AsyncStorage.setItem, oldest first
    lastWritten         \* the last value a setMode call wrote successfully (<< >> is none)

modeVars == << storage, hasSelectedMode, isLoading, pendingModes, lastWritten >>

VARIABLES
    queryOut            \* the last SupabaseService query and what it returned

serviceVars == << queryOut >>

VARIABLES
    settings,           \* SettingsScreen state: showConfirmation, pendingMode (<< >> is null)
    modal,              \* App's showModeModal and StartupModeModal's state
    callers,            \* for each entry of pendingModes, the handler awaiting it
    handler             \* the last handler of the two components that ran, and its argument

settingsVars == << settings, modal, callers, handler >>

auxVars == << geoVars, modeVars, serviceVars, settingsVars >>

otherVars == << tipVars, storeVars, auxVars >>

vars == << discoveryVars, tipVars, storeVars, auxVars >>

MapListener == "MapScreen"
Observer == "Observer"
ListenerNames == {MapListener, Observer}

Loc(lat) == [latitude |-> lat, longitude |-> LON0]

Ids(s) == {s[i].id : i \in 1..Len(s)}

\* ----------------------------------------------------- discovery pipeline
WithDistance(p, loc) ==
    [f \in (DOMAIN p) \cup {"distance"} |->
        IF f = "distance"
        THEN Haversine(loc.latitude, loc.longitude, p.latitude, p.longitude)
        ELSE p[f]]

CreateMockPosts(lat, long) ==
    << [id |-> "demo-1", latitude |-> lat + MockDLat1, longitude |-> long + MockDLon1,
        creator |-> "7xKX...2CW8", timestamp |-> now - HOUR, expiry |-> now + 6 * DAY,
        tips |-> 150,
        distance |-> Haversine(lat, long, lat + MockDLat1, long + MockDLon1)],
       [id |-> "demo-2", latitude |-> lat + MockDLat2, longitude |-> long + MockDLon2,
        creator |-> "ABC1...3XYZ", timestamp |-> now - DAY, expiry |-> now + 5 * DAY,
        tips |-> 75,
        distance |-> Haversine(lat, long, lat + MockDLat2, long + MockDLon2)] >>

\* Array.prototype.sort((a, b) => b.timestamp - a.timestamp): stable, newest first.
RECURSIVE InsertDesc(_, _)
InsertDesc(sorted, p) ==
    IF sorted = << >> THEN << p >>
    ELSE IF sorted[1].timestamp >= p.timestamp
         THEN << sorted[1] >> \o InsertDesc(Tail(sorted), p)
         ELSE << p >> \o sorted

RECURSIVE SortDescFrom(_, _)
SortDescFrom(s, acc) ==
    IF s = << >> THEN acc ELSE SortDescFrom(Tail(s), InsertDesc(acc, s[1]))

Unsorted(s) == s
SortByTimestampDesc(s) == SortDescFrom(s, << >>)

MapSeq(s, Op(_)) == [i \in 1..Len(s) |-> Op(s[i])]

\* updatePosts, demo branch: the list handed to setPosts.
DemoCandidates(store, loc) ==
    LET standardMocks == CreateMockPosts(loc.latitude, loc.longitude)
        userMocks == [i \in 1..Len(store) |-> WithDistance(store[i], loc)]
    IN  userMocks \o standardMocks

DemoCombined(store, loc) == SortByTimestampDesc(DemoCandidates(store, loc))

\* IrysService.queryPostsByGeohash, real mode.  outcome "ok": the GraphQL
\* query answered and `fetched` are the transactions whose metadata fetch
\* answered OK; "fail": fetch threw, the response was not OK or had no
\* transactions (all of them end in `return []`).
IrysQuery(geohashPrefix, outcome, fetched) ==
    IF outcome = "ok"
    THEN SelectSeq(irysPosts,
                   LAMBDA p : StartsWith(p.geohash, geohashPrefix) /\ p.id \in fetched)
    ELSE << >>

WithinRealRadiusInclusive(p) == p.distance <= RealRadius
WithinRealRadius(p) == p.distance < RealRadius

\* updatePosts, real branch after the await: the list handed to setPosts.
\* outcome "throw": an exception inside the try block (a null metadata
\* object makes the map callback throw), handled by the catch block.
RealDisplayedStale(outcome, realPosts, loc, shown) ==
    IF outcome # "ok" THEN shown
    ELSE SortByTimestampDesc(
            SelectSeq([i \in 1..Len(realPosts) |-> WithDistance(realPosts[i], loc)],
                      WithinRealRadius))
RealDisplayed(outcome, realPosts, loc, shown) ==
    IF outcome = "throw" THEN << >>
    ELSE SortByTimestampDesc(
            SelectSeq([i \in 1..Len(realPosts) |-> WithDistance(realPosts[i], loc)],
                      WithinRealRadius))

\* updatePosts(loc) up to its first await (demo: to its end).
UpdatePosts(loc) ==
    IF mode = "demo"
    THEN /\ posts' = DemoCombined(userCreatedPosts', loc)
         /\ candidates' = DemoCandidates(userCreatedPosts', loc)
         /\ latestDone' = TRUE
         /\ latestResult' = posts'
         /\ lastRefresh' = "demo"
         /\ UNCHANGED << isLoadingRealPosts, inflight >>
    ELSE /\ Len(inflight) < MaxInflight
         /\ isLoadingRealPosts' = TRUE
         /\ inflight' = Append(inflight,
                [loc |-> loc,
                 geohash |-> EncodeGeohash(loc.latitude, loc.longitude, 5)])
         /\ latestDone' = FALSE
         /\ lastRefresh' = "issued"
         /\ candidates' = << >>
         /\ UNCHANGED << posts, latestResult >>

NoRefresh ==
    /\ lastRefresh' = "none"
    /\ candidates' = << >>
    /\ UNCHANGED << posts, isLoadingRealPosts, inflight, latestDone, latestResult >>

\* listeners.forEach(listener => listener()): how often listener l runs.
InvocationsNone(ls, l) == 0
Invocations(ls, l) == Cardinality({i \in 1..Len(ls) : ls[i] = l})

\* A store call that notifies nobody (or is no mutation at all).
NoRound == [rest |-> << >>, ran |-> "", registered |-> TRUE]

NoNotify ==
    /\ calls' = [l \in ListenerNames |-> 0]
    /\ seen' = [l \in ListenerNames |-> << >>]
    /\ round' = NoRound

\* listeners.forEach(listener => listener()) at the end of a mutation:
\* MapScreen's listener refreshes from latestLocation.current, the observer
\* reads getPosts().
NotifyListeners ==
    /\ calls' = [l \in ListenerNames |-> Invocations(listeners, l)]
    /\ round' = NoRound
    /\ seen' = [l \in ListenerNames |->
                   IF Invocations(listeners, l) > 0 THEN userCreatedPosts' ELSE << >>]
    /\ IF Invocations(listeners, MapListener) > 0 /\ latestLocation # << >>
       THEN UpdatePosts(latestLocation[1])
       ELSE NoRefresh

\* --------------------------------------------------------------- actions
InitDiscovery ==
    /\ now = NowInit
    /\ ticks = 0
    /\ mode \in Modes
    /\ userCreatedPosts = << >>
    /\ listeners = << MapListener >>
    /\ location = << >>
    /\ latestLocation = << >>
    /\ postsGenerated = FALSE
    /\ posts = << >>
    /\ isLoadingRealPosts = FALSE
    /\ inflight = << >>
    /\ irysPosts = << >>
    /\ irysCreated = << >>
    /\ supabasePosts = << >>
    /\ profilePosts = << >>
    /\ deleted = {}
    /\ lastRefresh = "none"
    /\ prevPosts = << >>
    /\ latestDone = FALSE
    /\ latestResult = << >>
    /\ candidates = << >>

\* The clock advances.
Tick(d) ==
    /\ UNCHANGED otherVars
    /\ ticks < MaxTicks
    /\ now' = now + d
    /\ ticks' = ticks + 1
    /\ prevPosts' = << >>
    /\ NoRefresh
    /\ UNCHANGED << mode, userCreatedPosts, listeners, location, latestLocation,
                    postsGenerated, irysPosts, irysCreated, supabasePosts,
                    profilePosts, deleted >>

\* MapScreen.handleLocationUpdate(loc), the screen being mounted.
HandleLocationUpdate(lat) ==
    /\ UNCHANGED otherVars
    /\ location' = << Loc(lat) >>
    /\ latestLocation' = << Loc(lat) >>
    /\ UNCHANGED userCreatedPosts
    /\ IF ~postsGenerated
       THEN UpdatePosts(Loc(lat)) /\ postsGenerated' = TRUE
       ELSE NoRefresh /\ UNCHANGED postsGenerated
    /\ prevPosts' = << >>
    /\ UNCHANGED << now, ticks, mode, listeners, irysPosts, irysCreated,
                    supabasePosts, profilePosts, deleted >>

\* MapScreen.onRefresh (pull to refresh).
OnRefresh ==
    /\ UNCHANGED otherVars
    /\ location # << >>
    /\ UNCHANGED userCreatedPosts
    /\ UpdatePosts(location[1])
    /\ prevPosts' = << >>
    /\ UNCHANGED << now, ticks, mode, listeners, location, latestLocation,
                    postsGenerated, irysPosts, irysCreated, supabasePosts,
                    profilePosts, deleted >>

\* demoPostStore.addPost(post), without the notification.
AddPostReplacing(store, post) == << post >>
AddPost(store, post) == << post >> \o store

\* The post CreatePostScreen.handleSubmit hands to demoPostStore.addPost.
DemoSubmitPost(id, a, lat) ==
    [id |-> id, latitude |-> lat, longitude |-> LON0, creator |-> ToBase58(a),
     timestamp |-> now, expiry |-> now + DemoSubmitTTL, tips |-> 0]

\* CreatePostScreen.handleSubmit, demo branch (the 1.5 s delay before addPost
\* is not a separate step), with the store's notification of MapScreen.
HandleSubmitDemo(a, lat) ==
    /\ UNCHANGED << tipVars, auxVars >>
    /\ mode = "demo"
    /\ Len(userCreatedPosts) < MaxPosts
    /\ userCreatedPosts' =
          AddPost(userCreatedPosts,
                  DemoSubmitPost(UserIds[Len(userCreatedPosts) + 1], a, lat))
    /\ storeOp' = [name |-> "addPost", before |-> userCreatedPosts,
                   id |-> UserIds[Len(userCreatedPosts) + 1], amount |-> 0]
    /\ NotifyListeners
    /\ prevPosts' = << >>
    /\ UNCHANGED << now, ticks, mode, listeners, location, latestLocation,
                    postsGenerated, irysPosts, irysCreated, supabasePosts,
                    profilePosts, deleted >>

\* IrysService.createPost: the metadata object it builds (and only logs).
IrysMetadata(id, latitude, longitude, creator) ==
    [id |-> id, latitude |-> latitude, longitude |-> longitude, creator |-> creator,
     timestamp |-> now, expiry |-> now + 7 * 24 * 60 * 60 * 1000, tips |-> 0,
     geohash |-> IrysEncodeGeohash(latitude, longitude, 7)]

\* CreatePostScreen.handleSubmit, real branch: irysService.createPost builds
\* the metadata and returns its id; nothing is sent to the Irys node.
HandleSubmitReal(a, lat) ==
    /\ UNCHANGED otherVars
    /\ mode = "real"
    /\ Len(irysCreated) < MaxPosts
    /\ irysCreated' =
          Append(irysCreated,
                 IrysMetadata(UserIds[Len(irysCreated) + 1], lat, LON0, ToBase58(a)))
    /\ prevPosts' = << >>
    /\ NoRefresh
    /\ UNCHANGED << now, ticks, mode, userCreatedPosts, listeners, location,
                    latestLocation, postsGenerated, irysPosts, supabasePosts,
                    profilePosts, deleted >>

\* SupabaseService.createPost: the row it inserts.
SupabaseRow(id, creator, latitude, longitude) ==
    [id |-> id, creator |-> creator, latitude |-> latitude, longitude |-> longitude,
     geohash |-> SupabaseEncodeGeohash(latitude, longitude, 7),
     timestamp |-> now, expiry |-> now + 7 * 24 * 60 * 60 * 1000, tips |-> 0]

SupabaseCreatePost(a, lat, ok) ==
    /\ UNCHANGED otherVars
    /\ Len(supabasePosts) < MaxPosts
    /\ supabasePosts' =
          IF ok
          THEN Append(supabasePosts,
                      SupabaseRow(RemoteIds[Len(supabasePosts) + 1], ToBase58(a), lat, LON0))
          ELSE supabasePosts
    /\ prevPosts' = << >>
    /\ NoRefresh
    /\ UNCHANGED << now, ticks, mode, userCreatedPosts, listeners, location,
                    latestLocation, postsGenerated, irysPosts, irysCreated,
                    profilePosts, deleted >>

\* The rows a select of the posts table with .ilike("geohash", prefix + "%")
\* and .gt("expiry", Date.now()) matches.
QueryMatches(row, prefix, at) ==
    /\ ILike(row.geohash, Append(prefix, "%"))
    /\ row.expiry > at

\* .order("timestamp", {ascending: false}): the matching rows in one of the
\* orders that have no row before a newer one.
Orderings(rows) ==
    {[k \in 1..Len(rows) |-> rows[f[k]]] :
        f \in {g \in [1..Len(rows) -> 1..Len(rows)] :
                  /\ \A i, j \in 1..Len(rows) : i # j => g[i] # g[j]
                  /\ \A i, j \in 1..Len(rows) :
                        i < j => rows[g[i]].timestamp >= rows[g[j]].timestamp}}

\* SupabaseService.queryPostsByGeohash(geohashPrefix) answers: the rows, or
\* an error, on which it logs and returns [].
SupabaseQueryPostsByGeohash(prefix, ok) ==
    /\ \E value \in Orderings(SelectSeq(supabasePosts,
                                         LAMBDA row : QueryMatches(row, prefix, now))) :
          queryOut' = [op |-> "queryPostsByGeohash", prefix |-> prefix, at |-> now,
                       ok |-> ok, table |-> supabasePosts,
                       value |-> IF ok THEN value ELSE << >>]
    /\ queryOut.prefix # prefix \/ queryOut.at # now \/ queryOut.table # supabasePosts
          \/ queryOut.ok # ok
    /\ UNCHANGED << discoveryVars, tipVars, storeVars, geoVars, modeVars, settingsVars >>

\* Another client's post transaction reaches the Irys node, tagged with the
\* geohash of its coordinates.
RemoteUploadUpTo(a, lat, max) ==
    /\ UNCHANGED otherVars
    /\ Len(irysPosts) < max
    /\ irysPosts' =
          Append(irysPosts,
                 IrysMetadata(RemoteIds[Len(irysPosts) + 1], lat, LON0, ToBase58(a)))
    /\ prevPosts' = << >>
    /\ NoRefresh
    /\ UNCHANGED << now, ticks, mode, userCreatedPosts, listeners, location,
                    latestLocation, postsGenerated, irysCreated, supabasePosts,
                    profilePosts, deleted >>

RemoteUpload(a, lat) == RemoteUploadUpTo(a, lat, MaxRemote)

\* AppModeContext.setMode(m) succeeding; MapScreen's effect depends on
\* updatePosts, which depends on mode, so the effect is torn down and run
\* again: unsubscribe, a fresh postsGenerated, subscribe.
ApplyMode(m) ==
    IF m # mode
    THEN /\ mode' = m
         /\ postsGenerated' = FALSE
         /\ listeners' = Append(SelectSeq(listeners, LAMBDA l : l # MapListener), MapListener)
         /\ prevPosts' = << >>
         /\ NoRefresh
         /\ UNCHANGED << now, ticks, userCreatedPosts, location, latestLocation,
                         irysPosts, irysCreated, supabasePosts, profilePosts, deleted >>
    ELSE UNCHANGED discoveryVars

SetMode(m) ==
    /\ UNCHANGED << tipVars, storeVars, geoVars, serviceVars, settingsVars >>
    /\ m # mode
    /\ ~isLoading
    /\ pendingModes = << >>
    /\ storage' = << m >>
    /\ lastWritten' = << m >>
    /\ hasSelectedMode' = TRUE
    /\ UNCHANGED << isLoading, pendingModes >>
    /\ ApplyMode(m)

RemoveAt(s, i) == SubSeq(s, 1, i - 1) \o SubSeq(s, i + 1, Len(s))

\* The backend answers the i-th outstanding real-mode updatePosts call, which
\* runs to its end: setPosts and, in finally, setIsLoadingRealPosts(false).
RealRefreshDone(i, outcome, fetched) ==
    /\ UNCHANGED otherVars
    /\ i \in 1..Len(inflight)
    /\ outcome = "fail" => fetched = {}
    /\ fetched \subseteq
          {p.id : p \in {irysPosts[k] : k \in
                     {j \in 1..Len(irysPosts) :
                         StartsWith(irysPosts[j].geohash, inflight[i].geohash)}}}
    /\ posts' = RealDisplayed(outcome,
                              IrysQuery(inflight[i].geohash, outcome, fetched),
                              inflight[i].loc, posts)
    /\ candidates' =
          IF outcome = "throw" THEN << >>
          ELSE LET realPosts == IrysQuery(inflight[i].geohash, outcome, fetched)
               IN  [k \in 1..Len(realPosts) |-> WithDistance(realPosts[k], inflight[i].loc)]
    /\ prevPosts' = posts
    /\ isLoadingRealPosts' = FALSE
    /\ inflight' = RemoveAt(inflight, i)
    /\ IF i = Len(inflight) /\ ~latestDone
       THEN latestDone' = TRUE /\ latestResult' = posts'
       ELSE UNCHANGED << latestDone, latestResult >>
    /\ lastRefresh' = outcome
    /\ UNCHANGED << now, ticks, mode, userCreatedPosts, listeners, location,
                    latestLocation, postsGenerated, irysPosts, irysCreated,
                    supabasePosts, profilePosts, deleted >>

\* ProfileScreen.loadUserPosts for the selected account a.
LoadUserPosts(a) ==
    /\ UNCHANGED otherVars
    /\ profilePosts' =
          IF mode = "demo"
          THEN LET mine == SelectSeq(userCreatedPosts,
                                     LAMBDA p : p.creator = ToBase58(a))
               IN  [i \in 1..Len(mine) |-> mine[i].id]
          ELSE LET mine == SelectSeq(supabasePosts,
                                     LAMBDA p : p.creator = ToBase58(a))
               IN  [i \in 1..Len(mine) |-> mine[i].id]
    /\ prevPosts' = << >>
    /\ NoRefresh
    /\ UNCHANGED << now, ticks, mode, userCreatedPosts, listeners, location,
                    latestLocation, postsGenerated, irysPosts, irysCreated,
                    supabasePosts, deleted >>

\* ProfileScreen.handleDeletePost(postId), "Delete" pressed in the alert.
HandleDeletePost(postId) ==
    /\ UNCHANGED otherVars
    /\ \E i \in 1..Len(profilePosts) : profilePosts[i] = postId
    /\ profilePosts' = SelectSeq(profilePosts, LAMBDA id : id # postId)
    /\ deleted' = deleted \cup {postId}
    /\ prevPosts' = << >>
    /\ NoRefresh
    /\ UNCHANGED << now, ticks, mode, userCreatedPosts, listeners, location,
                    latestLocation, postsGenerated, irysPosts, irysCreated,
                    supabasePosts >>

\* ------------------------------------------------------------ tip recorder
Digits == << "0", "1", "2", "3", "4", "5", "6", "7", "8", "9" >>
IsDigit(c) == \E d \in 1..10 : Digits[d] = c
DigitValue(c) == (CHOOSE d \in 1..10 : Digits[d] = c) - 1

\* parseInt(text) for a text without leading white space: an optional sign,
\* then the longest run of digits; no digit at all is NaN.
RECURSIVE ParseDigits(_, _, _)
ParseDigits(s, acc, any) ==
    IF s = << >> \/ ~IsDigit(Head(s))
    THEN [nan |-> ~any, value |-> acc]
    ELSE ParseDigits(Tail(s), acc * 10 + DigitValue(Head(s)), TRUE)

ParseInt(s) ==
    IF s # << >> /\ Head(s) = "-"
    THEN LET r == ParseDigits(Tail(s), 0, FALSE)
         IN  [nan |-> r.nan, value |-> 0 - r.value]
    ELSE IF s # << >> /\ Head(s) = "+"
    THEN ParseDigits(Tail(s), 0, FALSE)
    ELSE ParseDigits(s, 0, FALSE)

TipTexts == { << >>, << "0" >>, << "5" >>, << "-", "3" >> }
Balances == {3, 10}

NoTipOp ==
    [built |-> FALSE, sent |-> FALSE, confirmed |-> FALSE, failedAt |-> "none",
     success |-> FALSE, self |-> FALSE, rows |-> 0, counter |-> 0, demoTips |-> 0]

InitTip ==
    /\ selectedAccount = << >>
    /\ currentPost = << >>
    /\ tipAmount = << >>
    /\ isTipping = FALSE
    /\ skrBalance = << >>
    /\ tipPc = "idle"
    /\ tipLocal = << >>
    /\ transfers = << >>
    /\ tipsTable = << >>
    /\ alert = "none"
    /\ tipOps = 0
    /\ tipOp = NoTipOp

NoStoreOp == [name |-> "none", before |-> << >>, id |-> "", amount |-> 0]

InitStore ==
    /\ calls = [l \in ListenerNames |-> 0]
    /\ seen = [l \in ListenerNames |-> << >>]
    /\ storeOp = NoStoreOp
    /\ round = NoRound

\* The account is the one that created the post, whichever encoding of its
\* key the post's creator field holds.
IsCreator(a, post) == post.creator = ToBase58(a) \/ post.creator = Address(a)

\* JSX guard of the tip section: selectedAccount?.address !== currentPost.creator.
TipSectionShown ==
    IF selectedAccount = << >> THEN TRUE
    ELSE Address(selectedAccount[1]) # currentPost[1].creator

IsTipButtonDisabled ==
    LET amount == ParseInt(tipAmount)
    IN  \/ selectedAccount = << >>
        \/ isTipping
        \/ amount.nan
        \/ amount.value <= 0
        \/ (mode = "real" /\ skrBalance # << >> /\ amount.value > skrBalance[1])

\* demoPostStore.updatePostTips(postId, amount), without the notification.
HasPost(store, postId) == \E i \in 1..Len(store) : store[i].id = postId
UpdatePostTipsToFront(store, postId, amount) ==
    IF HasPost(store, postId)
    THEN LET postIndex == CHOOSE i \in 1..Len(store) : store[i].id = postId
         IN  << [store[postIndex] EXCEPT !.tips = store[postIndex].tips + amount] >>
                \o SelectSeq(store, LAMBDA p : p.id # postId)
    ELSE store
UpdatePostTips(store, postId, amount) ==
    IF HasPost(store, postId)
    THEN LET postIndex == CHOOSE i \in 1..Len(store) :
                              /\ store[i].id = postId
                              /\ \A j \in 1..(i - 1) : store[j].id # postId
         IN  [store EXCEPT ![postIndex] =
                 [store[postIndex] EXCEPT !.tips = store[postIndex].tips + amount]]
    ELSE store

\* A user signs in with account a.
SelectAccount(a) ==
    /\ tipPc = "idle"
    /\ selectedAccount # << a >>
    /\ selectedAccount' = << a >>
    /\ skrBalance' = << >>
    /\ UNCHANGED << currentPost, tipAmount, isTipping, tipPc, tipLocal, transfers,
                    tipsTable, alert, tipOps, tipOp >>
    /\ UNCHANGED << discoveryVars, storeVars, auxVars >>

\* The posts a detail screen can be opened on: an item of MapScreen's demo
\* list or of ProfileScreen's list.
DetailPosts ==
    IF mode = "demo"
    THEN {userCreatedPosts[i] : i \in 1..Len(userCreatedPosts)}
            \cup {CreateMockPosts(0, LON0)[1]}
    ELSE {supabasePosts[i] : i \in 1..Len(supabasePosts)}

\* navigation.navigate("PostDetail", {post}): a fresh PostDetailScreen.
OpenPostDetail(post) ==
    /\ tipPc = "idle"
    /\ currentPost # << post >>
    /\ currentPost' = << post >>
    /\ tipAmount' = << >>
    /\ isTipping' = FALSE
    /\ skrBalance' = << >>
    /\ UNCHANGED << selectedAccount, tipPc, tipLocal, transfers, tipsTable, alert,
                    tipOps, tipOp >>
    /\ UNCHANGED << discoveryVars, storeVars, auxVars >>

\* The user edits the amount field (editable only when signed in).
SetTipAmount(text) ==
    /\ currentPost # << >>
    /\ selectedAccount # << >>
    /\ TipSectionShown
    /\ tipAmount # text
    /\ tipAmount' = text
    /\ UNCHANGED << selectedAccount, currentPost, isTipping, skrBalance, tipPc,
                    tipLocal, transfers, tipsTable, alert, tipOps, tipOp >>
    /\ UNCHANGED << discoveryVars, storeVars, auxVars >>

\* loadSKRBalance of the mount effect answers (real mode).
LoadSKRBalance(b) ==
    /\ currentPost # << >>
    /\ selectedAccount # << >>
    /\ mode = "real"
    /\ tipPc = "idle"
    /\ skrBalance # << b >>
    /\ skrBalance' = << b >>
    /\ UNCHANGED << selectedAccount, currentPost, tipAmount, isTipping, tipPc,
                    tipLocal, transfers, tipsTable, alert, tipOps, tipOp >>
    /\ UNCHANGED << discoveryVars, storeVars, auxVars >>

TipRejectedBusy(why) ==
    /\ alert' = "Error"
    /\ isTipping' = TRUE
    /\ tipOp' = [NoTipOp EXCEPT !.failedAt = why]
    /\ UNCHANGED << selectedAccount, currentPost, tipAmount, skrBalance,
                    tipPc, tipLocal, transfers, tipsTable >>
    /\ UNCHANGED << discoveryVars, storeVars, auxVars >>
TipRejected(why) ==
    /\ alert' = "Error"
    /\ tipOp' = [NoTipOp EXCEPT !.failedAt = why,
                                !.self = (selectedAccount # << >>
                                          /\ IsCreator(selectedAccount[1], currentPost[1]))]
    /\ UNCHANGED << selectedAccount, currentPost, tipAmount, isTipping, skrBalance,
                    tipPc, tipLocal, transfers, tipsTable >>
    /\ UNCHANGED << discoveryVars, storeVars, auxVars >>

\* handleTip from its first line to its first await.
HandleTip ==
    LET amount == ParseInt(tipAmount)
    IN  /\ tipOps' = tipOps + 1
        /\ IF selectedAccount = << >> THEN TipRejected("wallet")
           ELSE IF amount.nan \/ amount.value <= 0 THEN TipRejected("amount")
           ELSE IF mode = "real" /\ skrBalance # << >> /\ amount.value > skrBalance[1]
           THEN TipRejected("balance")
           ELSE /\ isTipping' = TRUE
                /\ tipLocal' = << [amount |-> amount.value,
                                   tipper |-> ToBase58(selectedAccount[1])] >>
                /\ IF mode = "real"
                   THEN /\ tipPc' = "build"
                        /\ tipOp' = [NoTipOp EXCEPT !.self =
                                        IsCreator(selectedAccount[1], currentPost[1])]
                        /\ UNCHANGED alert
                        /\ UNCHANGED << discoveryVars, storeVars, auxVars >>
                   ELSE /\ userCreatedPosts' =
                              UpdatePostTips(userCreatedPosts, currentPost[1].id,
                                             amount.value)
                        /\ storeOp' = [name |-> "updatePostTips",
                                       before |-> userCreatedPosts,
                                       id |-> currentPost[1].id,
                                       amount |-> amount.value]
                        /\ IF HasPost(userCreatedPosts, currentPost[1].id)
                           THEN NotifyListeners
                           ELSE NoNotify /\ NoRefresh
                        /\ alert' = "Success"
                        /\ tipPc' = "notify"
                        /\ tipOp' = [NoTipOp EXCEPT
                                        !.self = IsCreator(selectedAccount[1], currentPost[1]),
                                        !.success = TRUE,
                                        !.demoTips =
                                            IF HasPost(userCreatedPosts, currentPost[1].id)
                                            THEN amount.value ELSE 0]
                        /\ prevPosts' = << >>
                        /\ UNCHANGED auxVars
                        /\ UNCHANGED << now, ticks, mode, listeners, location,
                                        latestLocation, postsGenerated, irysPosts,
                                        irysCreated, supabasePosts, profilePosts,
                                        deleted >>
                /\ UNCHANGED << selectedAccount, currentPost, tipAmount, skrBalance,
                                transfers, tipsTable >>

\* The Tip button is pressed: it is rendered and enabled.
PressTip ==
    /\ currentPost # << >>
    /\ tipOps < MaxTips
    /\ TipSectionShown
    /\ ~IsTipButtonDisabled
    /\ HandleTip

TipCatchNoFinally(step) ==
    /\ alert' = "Error"
    /\ isTipping' = isTipping
    /\ tipPc' = "idle"
    /\ tipOp' = [tipOp EXCEPT !.failedAt = step]
\* handleTip's catch and finally blocks.
TipCatch(step) ==
    /\ alert' = "Error"
    /\ isTipping' = FALSE
    /\ tipPc' = "idle"
    /\ tipOp' = [tipOp EXCEPT !.failedAt = step]

\* tokenService.buildTransferTransaction answers.
TipBuildDone(ok) ==
    /\ tipPc = "build"
    /\ IF ok
       THEN /\ tipPc' = "send"
            /\ tipOp' = [tipOp EXCEPT !.built = TRUE]
            /\ UNCHANGED << alert, isTipping >>
       ELSE TipCatch("build")
    /\ UNCHANGED << selectedAccount, currentPost, tipAmount, skrBalance, tipLocal,
                    transfers, tipsTable, tipOps >>
    /\ UNCHANGED << discoveryVars, storeVars, auxVars >>

\* signAndSendTransaction answers: the wallet sent the transfer, or refused.
TipSendDone(ok) ==
    /\ tipPc = "send"
    /\ IF ok
       THEN /\ tipPc' = "confirm"
            /\ transfers' = Append(transfers,
                                   [from |-> tipLocal[1].tipper,
                                    to |-> currentPost[1].creator,
                                    amount |-> tipLocal[1].amount])
            /\ tipOp' = [tipOp EXCEPT !.sent = TRUE]
            /\ UNCHANGED << alert, isTipping >>
       ELSE TipCatch("send") /\ UNCHANGED transfers
    /\ UNCHANGED << selectedAccount, currentPost, tipAmount, skrBalance, tipLocal,
                    tipsTable, tipOps >>
    /\ UNCHANGED << discoveryVars, storeVars, auxVars >>

\* TokenService.confirmTransaction: where handleTip goes next.
AfterConfirmSwallow(ok) == "insert"
AfterConfirm(ok) == IF ok THEN "insert" ELSE "catch"

TipConfirmDone(ok) ==
    /\ tipPc = "confirm"
    /\ IF AfterConfirm(ok) = "insert"
       THEN /\ tipPc' = "insert"
            /\ tipOp' = [tipOp EXCEPT !.confirmed = ok]
            /\ UNCHANGED << alert, isTipping >>
       ELSE TipCatch("confirm")
    /\ UNCHANGED << selectedAccount, currentPost, tipAmount, skrBalance, tipLocal,
                    transfers, tipsTable, tipOps >>
    /\ UNCHANGED << discoveryVars, storeVars, auxVars >>

\* What recordTip does after its first write: on tipError it throws, and
\* handleTip catches.
AfterInsertSwallow(ok) == "update"
AfterInsert(ok) == IF ok THEN "update" ELSE "catch"

\* SupabaseService.recordTip, first write: insert into `tips`.
TipInsertDone(ok) ==
    /\ tipPc = "insert"
    /\ tipsTable' =
          IF ok
          THEN Append(tipsTable,
                      [post_id |-> currentPost[1].id,
                       tipper |-> tipLocal[1].tipper,
                       amount |-> tipLocal[1].amount,
                       timestamp |-> now])
          ELSE tipsTable
    /\ IF AfterInsert(ok) = "update"
       THEN /\ tipPc' = "update"
            /\ tipOp' = [tipOp EXCEPT !.rows = IF ok THEN tipOp.rows + 1 ELSE tipOp.rows]
            /\ UNCHANGED << alert, isTipping >>
       ELSE TipCatch("insert")
    /\ UNCHANGED << selectedAccount, currentPost, tipAmount, skrBalance, tipLocal,
                    transfers, tipOps >>
    /\ UNCHANGED << discoveryVars, storeVars, auxVars >>

\* What recordTip does when its second write reports an error: it logs it
\* and returns, and handleTip goes on to its Success alert.
AfterUpdate(ok) == "success"

\* SupabaseService.recordTip, second write: update posts.tips, then the rest
\* of handleTip up to sendTipNotification.
TipUpdateDone(ok) ==
    /\ tipPc = "update"
    /\ supabasePosts' =
          IF ok
          THEN [i \in 1..Len(supabasePosts) |->
                   IF supabasePosts[i].id = currentPost[1].id
                   THEN [supabasePosts[i] EXCEPT
                            !.tips = supabasePosts[i].tips + tipLocal[1].amount]
                   ELSE supabasePosts[i]]
          ELSE supabasePosts
    /\ IF AfterUpdate(ok) = "success"
       THEN /\ alert' = "Success"
            /\ tipPc' = "notify"
            /\ tipOp' = [tipOp EXCEPT
                            !.success = TRUE,
                            !.counter = IF ok THEN tipLocal[1].amount ELSE 0,
                            !.failedAt = IF ok THEN "none" ELSE "update"]
            /\ UNCHANGED isTipping
       ELSE TipCatch("update")
    /\ UNCHANGED << selectedAccount, currentPost, tipAmount, skrBalance, tipLocal,
                    transfers, tipsTable, tipOps >>
    /\ UNCHANGED << now, ticks, mode, userCreatedPosts, listeners, location,
                    latestLocation, postsGenerated, posts, isLoadingRealPosts,
                    inflight, irysPosts, irysCreated, profilePosts, deleted,
                    lastRefresh, prevPosts, latestDone, latestResult, candidates >>
    /\ UNCHANGED << storeVars, auxVars >>

\* sendTipNotification returns (it catches its own errors); in demo mode
\* handleTip then runs to its end.
TipNotifyDone ==
    /\ tipPc = "notify"
    /\ IF mode = "real"
       THEN /\ tipPc' = "balance"
            /\ UNCHANGED << tipAmount, isTipping >>
       ELSE /\ tipPc' = "idle"
            /\ tipAmount' = << >>
            /\ isTipping' = FALSE
    /\ UNCHANGED << selectedAccount, currentPost, skrBalance, tipLocal, transfers,
                    tipsTable, alert, tipOps, tipOp >>
    /\ UNCHANGED << discoveryVars, storeVars, auxVars >>

\* loadSKRBalance returns (it catches its own errors); handleTip runs to its end.
TipBalanceDone(b) ==
    /\ tipPc = "balance"
    /\ skrBalance' = << b >>
    /\ tipPc' = "idle"
    /\ tipAmount' = << >>
    /\ isTipping' = FALSE
    /\ UNCHANGED << selectedAccount, currentPost, tipLocal, transfers, tipsTable,
                    alert, tipOps, tipOp >>
    /\ UNCHANGED << discoveryVars, storeVars, auxVars >>

\* ------------------------------------------------------------ demo store
StoreFrame ==
    /\ UNCHANGED << tipVars, auxVars >>
    /\ prevPosts' = << >>
    /\ UNCHANGED << now, ticks, mode, location, latestLocation, postsGenerated,
                    irysPosts, irysCreated, supabasePosts, profilePosts, deleted >>

\* demoPostStore.subscribe(listener).
Subscribe(l) ==
    /\ Len(listeners) < MaxListeners
    /\ listeners' = Append(listeners, l)
    /\ storeOp' = [NoStoreOp EXCEPT !.name = "subscribe"]
    /\ NoNotify
    /\ NoRefresh
    /\ UNCHANGED userCreatedPosts
    /\ StoreFrame

\* The function subscribe(listener) returned.
Unsubscribe(l) ==
    /\ \E i \in 1..Len(listeners) : listeners[i] = l
    /\ listeners' = SelectSeq(listeners, LAMBDA x : x # l)
    /\ storeOp' = [NoStoreOp EXCEPT !.name = "unsubscribe"]
    /\ NoNotify
    /\ NoRefresh
    /\ UNCHANGED userCreatedPosts
    /\ StoreFrame

\* demoPostStore.addPost(post).
StoreAddPost(a, lat) ==
    /\ HandleSubmitDemo(a, lat)

\* demoPostStore.updatePostTips(postId, amount).
StoreUpdatePostTips(postId, amount) ==
    /\ \A i \in 1..Len(userCreatedPosts) :
          Abs(userCreatedPosts[i].tips + amount) <= MaxTipTotal
    /\ userCreatedPosts' = UpdatePostTips(userCreatedPosts, postId, amount)
    /\ storeOp' = [name |-> "updatePostTips", before |-> userCreatedPosts,
                   id |-> postId, amount |-> amount]
    /\ IF HasPost(userCreatedPosts, postId)
       THEN NotifyListeners
       ELSE NoNotify /\ NoRefresh
    /\ UNCHANGED listeners
    /\ StoreFrame

\* demoPostStore.clear().
StoreClear ==
    /\ userCreatedPosts' = << >>
    /\ storeOp' = [NoStoreOp EXCEPT !.name = "clear", !.before = userCreatedPosts]
    /\ NotifyListeners
    /\ UNCHANGED listeners
    /\ StoreFrame

\* Demo mode: discovery over the demo store, and the profile screen.
NoGeo ==
    [op |-> "none", copy |-> "", lat |-> 0, lon |-> 0, precision |-> 0, value |-> << >>,
     lat2 |-> 0, lon2 |-> 0, ab |-> 0, ba |-> 0, aa |-> 0]

InitGeo == geoOut = NoGeo

\* The app after its startup load, with the mode in use the stored one.
InitLoaded ==
    /\ storage = << mode >>
    /\ hasSelectedMode = TRUE
    /\ isLoading = FALSE
    /\ pendingModes = << >>
    /\ lastWritten = << >>

NoQuery == [op |-> "none", prefix |-> << >>, at |-> 0, ok |-> TRUE,
            table |-> << >>, value |-> << >>]

InitService == queryOut = NoQuery

NoSettings == [showConfirmation |-> FALSE, pendingMode |-> << >>]
NoHandler == [name |-> "none", arg |-> ""]

\* SettingsScreen as mounted, and StartupModeModal as mounted: shown, with
\* the context's mode selected.
InitSettings ==
    /\ settings = NoSettings
    /\ modal = [visible |-> TRUE, selectedMode |-> mode, showConfirmation |-> FALSE]
    /\ callers = << >>
    /\ handler = NoHandler

Init ==
    /\ InitDiscovery /\ InitTip /\ InitStore /\ InitGeo /\ InitLoaded /\ InitService
    /\ InitSettings

InitDemo == Init /\ mode = "demo"

Next ==
    \/ \E d \in TickSteps : Tick(d)
    \/ \E lat \in ViewerLats : HandleLocationUpdate(lat)
    \/ OnRefresh
    \/ \E a \in Submitters, lat \in PostLats : HandleSubmitDemo(a, lat)
    \/ \E a \in Accounts : LoadUserPosts(a)
    \/ \E n \in 1..MaxPosts : HandleDeletePost(UserIds[n])

Spec == InitDemo /\ [][Next]_vars

\* Real mode: discovery over the Irys node.
InitReal == Init /\ mode = "real"

NextReal ==
    \/ \E d \in TickSteps : Tick(d)
    \/ \E lat \in ViewerLats : HandleLocationUpdate(lat)
    \/ OnRefresh
    \/ \E a \in Submitters, lat \in RemoteLats : RemoteUpload(a, lat)
    \/ \E i \in 1..MaxInflight, outcome \in {"ok", "fail", "throw"},
          fetched \in SUBSET {RemoteIds[n] : n \in 1..MaxRemote} :
             RealRefreshDone(i, outcome, fetched)

SpecReal == InitReal /\ [][NextReal]_vars

\* The creation paths alone.
Created == Len(userCreatedPosts) + Len(irysCreated) + Len(supabasePosts)

NextCreate ==
    \/ \E d \in TickSteps : Tick(d)
    \/ \E a \in Accounts, lat \in PostLats :
          Created < MaxPosts /\ HandleSubmitDemo(a, lat)
    \/ \E a \in Accounts, lat \in PostLats :
          Created < MaxPosts /\ HandleSubmitReal(a, lat)
    \/ \E a \in Accounts, lat \in PostLats, ok \in BOOLEAN :
          Created < MaxPosts /\ SupabaseCreatePost(a, lat, ok)
    \/ \E m \in Modes : SetMode(m)

SpecCreate == Init /\ [][NextCreate]_vars

\* The post-detail screen: tips in both modes.
NextTip ==
    \/ \E a \in Accounts : SelectAccount(a)
    \/ \E a \in Submitters, lat \in PostLats :
          Created < 1 /\ HandleSubmitDemo(a, lat)
    \/ \E a \in Submitters, lat \in PostLats :
          Created < 1 /\ SupabaseCreatePost(a, lat, TRUE)
    \/ \E post \in DetailPosts : OpenPostDetail(post)
    \/ \E text \in TipTexts : SetTipAmount(text)
    \/ \E b \in Balances : LoadSKRBalance(b)
    \/ PressTip
    \/ \E ok \in BOOLEAN : TipBuildDone(ok)
    \/ \E ok \in BOOLEAN : TipSendDone(ok)
    \/ \E ok \in BOOLEAN : TipConfirmDone(ok)
    \/ \E ok \in BOOLEAN : TipInsertDone(ok)
    \/ \E ok \in BOOLEAN : TipUpdateDone(ok)
    \/ TipNotifyDone
    \/ \E b \in Balances : TipBalanceDone(b)

SpecTip == Init /\ [][NextTip]_vars

\* Every promise handleTip awaits settles: the handler that is suspended at
\* an await is resumed, with the promise fulfilled or rejected.
TipResumes ==
    \/ \E ok \in BOOLEAN : TipBuildDone(ok)
    \/ \E ok \in BOOLEAN : TipSendDone(ok)
    \/ \E ok \in BOOLEAN : TipConfirmDone(ok)
    \/ \E ok \in BOOLEAN : TipInsertDone(ok)
    \/ \E ok \in BOOLEAN : TipUpdateDone(ok)
    \/ TipNotifyDone
    \/ \E b \in Balances : TipBalanceDone(b)

SpecTipFair == Init /\ [][NextTip]_vars /\ WF_vars(TipResumes)

\* The posts table of SupabaseService and its prefix query.
QueryLats == {100, -100}
QueryPrefixes == {<< >>, << "s" >>, << "s", "0" >>, << "k", "p" >>, << "S" >>,
                  << "_", "0" >>}

NextQuery ==
    \/ \E d \in TickSteps : Tick(d)
    \/ \E a \in Submitters, lat \in QueryLats, ok \in BOOLEAN :
          SupabaseCreatePost(a, lat, ok)
    \/ \E prefix \in QueryPrefixes, ok \in BOOLEAN :
          SupabaseQueryPostsByGeohash(prefix, ok)

SpecQuery == Init /\ [][NextQuery]_vars

\* handleTip called on whatever the screen holds, not only from the enabled
\* Tip button.
CallHandleTip ==
    /\ currentPost # << >>
    /\ tipPc = "idle"
    /\ tipOps < MaxTips
    /\ HandleTip

NextTipCall ==
    \/ NextTip
    \/ CallHandleTip

SpecTipCall == Init /\ [][NextTipCall]_vars

\* The demo store and its listeners.
NextStore ==
    \/ \E lat \in StoreViewerLats : HandleLocationUpdate(lat)
    \/ \E l \in ListenerNames : Subscribe(l)
    \/ \E l \in ListenerNames : Unsubscribe(l)
    \/ \E a \in Submitters, lat \in StoreLats : StoreAddPost(a, lat)
    \/ \E n \in 1..(MaxPosts + 1), amount \in StoreAmounts :
          StoreUpdatePostTips(UserIds[n], amount)
    \/ StoreClear

SpecStore == InitDemo /\ [][NextStore]_vars

\* demoPostStore.addPost(post) up to the first call of a listener: forEach
\* iterates the array `listeners` names at this moment.
BeginAddPost(a, lat) ==
    /\ round.rest = << >>
    /\ mode = "demo"
    /\ Len(userCreatedPosts) < MaxPosts
    /\ userCreatedPosts' =
          AddPost(userCreatedPosts,
                  DemoSubmitPost(UserIds[Len(userCreatedPosts) + 1], a, lat))
    /\ storeOp' = [name |-> "addPost", before |-> userCreatedPosts,
                   id |-> UserIds[Len(userCreatedPosts) + 1], amount |-> 0]
    /\ calls' = [l \in ListenerNames |-> 0]
    /\ seen' = [l \in ListenerNames |-> << >>]
    /\ round' = [rest |-> listeners, ran |-> "", registered |-> TRUE]
    /\ NoRefresh
    /\ prevPosts' = << >>
    /\ UNCHANGED << now, ticks, mode, listeners, location, latestLocation,
                    postsGenerated, irysPosts, irysCreated, supabasePosts,
                    profilePosts, deleted >>
    /\ UNCHANGED << tipVars, auxVars >>

\* listeners = listeners.filter(l => l !== listener).
Unsubscribed(ls, l) == SelectSeq(ls, LAMBDA x : x # l)

\* forEach calls the next listener of its array.  MapScreen's listener
\* refreshes; the observer may call the unsubscribe function of a registered
\* listener u ("" is none), which gives `listeners` a new array.
ListenerRuns(u) ==
    LET h == Head(round.rest)
    IN  /\ round.rest # << >>
        /\ u # "" => h = Observer /\ \E i \in 1..Len(listeners) : listeners[i] = u
        /\ UNCHANGED userCreatedPosts
        /\ listeners' = IF u = "" THEN listeners ELSE Unsubscribed(listeners, u)
        /\ round' = [rest |-> Tail(round.rest), ran |-> h,
                     registered |-> \E i \in 1..Len(listeners) : listeners[i] = h]
        /\ calls' = [calls EXCEPT ![h] = calls[h] + 1]
        /\ seen' = [seen EXCEPT ![h] = userCreatedPosts]
        /\ storeOp' = IF u = "" THEN storeOp
                      ELSE [NoStoreOp EXCEPT !.name = "unsubscribe"]
        /\ IF h = MapListener /\ latestLocation # << >>
           THEN UpdatePosts(latestLocation[1])
           ELSE NoRefresh
        /\ prevPosts' = << >>
        /\ UNCHANGED << now, ticks, mode, location, latestLocation,
                        postsGenerated, irysPosts, irysCreated, supabasePosts,
                        profilePosts, deleted >>
        /\ UNCHANGED << tipVars, auxVars >>

\* The demo store with its notification rounds listener by listener.
NextRound ==
    \/ \E lat \in StoreViewerLats : round.rest = << >> /\ HandleLocationUpdate(lat)
    \/ \E l \in ListenerNames : round.rest = << >> /\ Subscribe(l)
    \/ \E l \in ListenerNames : round.rest = << >> /\ Unsubscribe(l)
    \/ \E a \in Submitters, lat \in StoreLats : BeginAddPost(a, lat)
    \/ \E u \in ListenerNames \cup {""} : ListenerRuns(u)

SpecRound == InitDemo /\ [][NextRound]_vars

\* The demo store called with amounts of either sign.
NextStoreAmounts ==
    \/ \E lat \in StoreViewerLats : HandleLocationUpdate(lat)
    \/ \E a \in Submitters, lat \in StoreLats : StoreAddPost(a, lat)
    \/ \E n \in 1..(MaxPosts + 1), amount \in AnyAmounts :
          StoreUpdatePostTips(UserIds[n], amount)
    \/ StoreClear

SpecStoreAmounts == InitDemo /\ [][NextStoreAmounts]_vars

\* ------------------------------------------------------- discovery properties
\* The displayed list is the result of a refresh the last handler made.
FreshDemo == lastRefresh = "demo"
FailedRefresh == lastRefresh \in {"fail", "throw"}

DistanceTo(p, loc) == Haversine(loc.latitude, loc.longitude, p.latitude, p.longitude)

\* C1: in demo mode a refresh result contains a user-created post of the demo
\* store only if it is at most 100 m from the viewer, and contains every
\* stored post that is.
C1_DemoRadius ==
    FreshDemo /\ latestLocation # << >> =>
        \A i \in 1..Len(userCreatedPosts) :
            LET p == userCreatedPosts[i]
            IN  p.id \in Ids(posts) <=> DistanceTo(p, latestLocation[1]) <= DemoRadius

\* C2: no post whose expiry is at or before the current time is in the result
\* of a refresh.
C2_NoExpiredShown ==
    lastRefresh \in {"demo", "ok"} =>
        \A i \in 1..Len(posts) : posts[i].expiry > now

\* C3: every post a creation path produced has expiry = timestamp + 7 days.
C3_ExpiryIsTimestampPlusTTL ==
    \A s \in {userCreatedPosts, irysCreated, supabasePosts} :
        \A i \in 1..Len(s) : s[i].expiry = s[i].timestamp + TTL

\* C4: a post its creator deleted is in the result of no later refresh.
C4_DeletedNeverDiscovered ==
    lastRefresh \in {"demo", "ok"} =>
        \A id \in deleted : id \notin Ids(posts)

C10_SupersededDiscarded ==
    inflight = << >> /\ latestDone => posts = latestResult


\* ------------------------------------------------------------- tip properties
TipWrites ==
    tipOp.built \/ tipOp.sent \/ tipOp.rows > 0 \/ tipOp.counter > 0
        \/ tipOp.demoTips > 0

\* C5: a handleTip call started by the post's creator, in either mode, builds
\* and sends no transfer, writes no tip row, changes no tips counter and ends
\* in an error alert, never in Success.
C5_SelfTipRejected ==
    tipOp.self =>
        /\ ~TipWrites
        /\ ~tipOp.success
        /\ (tipPc = "idle" => alert = "Error")

RECURSIVE TotalTips(_)
TotalTips(rows) ==
    IF rows = << >> THEN 0 ELSE Head(rows).tips + TotalTips(Tail(rows))

LedgerChanged ==
    tipsTable' # tipsTable \/ TotalTips(supabasePosts') # TotalTips(supabasePosts)

\* C6: in real mode the steps of a tip come in the order build, send,
\* confirm, recordTip: a step is done only after the ones before it, and every
\* step that inserts a tip row or changes a tips counter of the posts table is
\* taken with all three done successfully, so that a failure of any of them
\* leaves both tables as they were.
C6_FailClosed ==
    /\ [](/\ tipOp.sent => tipOp.built
          /\ tipOp.confirmed => tipOp.sent
          /\ tipPc \in {"insert", "update"} => tipOp.confirmed
          /\ tipOp.failedAt \in {"build", "send", "confirm"} =>
                tipOp.rows = 0 /\ tipOp.counter = 0)
    /\ [][LedgerChanged =>
             mode = "real" /\ tipOp.built /\ tipOp.sent /\ tipOp.confirmed]_vars

C6_Witness ==
    /\ tipOp.confirmed
    /\ tipOp.rows = 1
    /\ tipOp.counter > 0
    /\ Len(tipsTable) = 1
    /\ Len(transfers) = 1

\* C7: in real mode, when the transfer is confirmed and a write of recordTip
\* fails (the insert of the tip row or the update of the tips counter), the
\* tip ends in an error and never in a Success alert.
C7_LedgerFailureSurfaced ==
    tipOp.confirmed /\ tipOp.failedAt \in {"insert", "update"} =>
        ~tipOp.success /\ alert = "Error"

\* ----------------------------------------------------------- store properties
IsMutation ==
    \/ storeOp.name \in {"addPost", "clear"}
    \/ storeOp.name = "updatePostTips" /\ HasPost(storeOp.before, storeOp.id)

MutationApplied ==
    /\ storeOp.name = "addPost" =>
          /\ userCreatedPosts # << >>
          /\ Head(userCreatedPosts).id = storeOp.id
          /\ Tail(userCreatedPosts) = storeOp.before
    /\ storeOp.name = "updatePostTips" =>
          userCreatedPosts = UpdatePostTips(storeOp.before, storeOp.id, storeOp.amount)
    /\ storeOp.name = "clear" => userCreatedPosts = << >>

Registrations(l) == Len(SelectSeq(listeners, LAMBDA x : x = l))

\* C8: when the last call on the store is a mutation (addPost, an
\* updatePostTips on a stored post, clear), every listener that is registered
\* once has been invoked exactly once by that call, the getPosts() it read
\* is the store after the mutation, and so is getPosts() afterwards; this
\* holds for every mutation while the listener stays registered.
C8_NotifiedOncePerMutation ==
    IsMutation =>
        /\ MutationApplied
        /\ \A l \in ListenerNames :
              Registrations(l) = 1 =>
                  calls[l] = 1 /\ seen[l] = userCreatedPosts

C8_Witness ==
    /\ storeOp.name = "updatePostTips"
    /\ storeOp.amount > 0
    /\ HasPost(storeOp.before, storeOp.id)
    /\ listeners = << MapListener, Observer >>
    /\ calls[Observer] = 1
    /\ seen[Observer] # storeOp.before
    /\ Len(userCreatedPosts) = 2

\* ----------------------------------------------------- refresh properties
RefreshedAtLatest ==
    /\ lastRefresh' = "demo"
    /\ posts' = DemoCombined(userCreatedPosts', latestLocation'[1])

\* C11: in demo mode every step that delivers a new location, every step that
\* changes the demo store while a location is known, and every pull to
\* refresh ends with the displayed list recomputed from the most recent
\* location.
C11_EveryTriggerRefreshes ==
    [][/\ latestLocation' # latestLocation => RefreshedAtLatest
       /\ userCreatedPosts' # userCreatedPosts /\ latestLocation # << >>
             => RefreshedAtLatest
       /\ OnRefresh => RefreshedAtLatest]_vars

\* Refreshes one at a time, in either mode, over up to MaxCandidates posts
\* on the Irys node.
NextRefresh ==
    \/ \E d \in TickSteps : Tick(d)
    \/ \E lat \in ViewerLats : inflight = << >> /\ HandleLocationUpdate(lat)
    \/ inflight = << >> /\ OnRefresh
    \/ \E a \in Submitters, lat \in PostLats : HandleSubmitDemo(a, lat)
    \/ \E a \in Submitters, lat \in RemoteLats :
          mode = "real" /\ RemoteUploadUpTo(a, lat, MaxCandidates)
    \/ \E outcome \in {"ok", "fail", "throw"},
          fetched \in SUBSET {RemoteIds[n] : n \in 1..MaxCandidates} :
             RealRefreshDone(1, outcome, fetched)

SpecRefresh == Init /\ [][NextRefresh]_vars

\* C12 as stated: a candidate the backend returned to a real-mode refresh is
\* in the displayed list exactly when its distance to the viewer is at most
\* 1000 m.
C12_RadiusInclusive ==
    lastRefresh = "ok" =>
        \A i \in 1..Len(candidates) :
            candidates[i].id \in Ids(posts) <=> candidates[i].distance <= RealRadius

\* C12 as amended: a candidate the backend returned to a real-mode refresh
\* is in the displayed list exactly when its distance to the viewer is less
\* than 1000 m, so a post at exactly 1000 m is left out.
C12_RadiusStrict ==
    lastRefresh = "ok" =>
        \A i \in 1..Len(candidates) :
            candidates[i].id \in Ids(posts) <=> candidates[i].distance < RealRadius

\* A refresh received one candidate at 999 m and one at exactly 1000 m.
C12_Witness ==
    /\ lastRefresh = "ok"
    /\ \E i, j \in 1..Len(candidates) :
          /\ candidates[i].distance = RealRadius - 1
          /\ candidates[j].distance = RealRadius
          /\ candidates[i].id \in Ids(posts)
          /\ candidates[j].id \notin Ids(posts)

Occurrences(s, x) == Cardinality({i \in 1..Len(s) : s[i] = x})

\* The candidates of the last refresh that pass its filter: all of them in
\* demo mode, those nearer than 1000 m in real mode.
Passed ==
    IF lastRefresh = "demo" THEN candidates
    ELSE SelectSeq(candidates, LAMBDA c : c.distance < RealRadius)

\* C13: the list a refresh displays, in either mode, is in non-increasing
\* order of timestamp and holds the candidates that passed the filter, each
\* as often as it passed: the sort drops nothing and duplicates nothing.
C13_SortedPermutation ==
    lastRefresh \in {"demo", "ok"} =>
        /\ \A i, j \in 1..Len(posts) : i < j => posts[i].timestamp >= posts[j].timestamp
        /\ Len(posts) = Len(Passed)
        /\ \A i \in 1..Len(Passed) :
              Occurrences(posts, Passed[i]) = Occurrences(Passed, Passed[i])

\* A real-mode refresh whose two candidates came back oldest first.
C13_Witness ==
    /\ lastRefresh = "ok"
    /\ Len(posts) = 2
    /\ Len(candidates) = 2
    /\ candidates[1].timestamp < candidates[2].timestamp
    /\ posts[1] = candidates[2]
    /\ posts[2] = candidates[1]

\* ------------------------------------------------------- geometry functions
\* Latitudes and longitudes in units: the poles and the antimeridian, the
\* equator and the prime meridian, San Francisco (MapScreen's fallback
\* location), and values just outside the valid ranges.
GeoLats == {-90 * DegUnits, -1, 0, 4200381, 90 * DegUnits}
GeoLons == {-180 * DegUnits, -13612425, 0, 1, 180 * DegUnits}
BadLats == {-90 * DegUnits - 1, 91 * DegUnits}
BadLons == {-180 * DegUnits - 1, 181 * DegUnits}
EncoderCopies == {"MapScreen", "IrysService", "SupabaseService"}
NearPoints == {<< 0, 0 >>, << 1, 0 >>, << 100, 0 >>, << 101, 0 >>, << 22, 22 >>,
               << -33, -11 >>}

InRange(lat, lon) ==
    /\ -90 * DegUnits <= lat /\ lat <= 90 * DegUnits
    /\ -180 * DegUnits <= lon /\ lon <= 180 * DegUnits

EncodeBy(copy, lat, lon, precision) ==
    IF copy = "MapScreen" THEN EncodeGeohash(lat, lon, precision)
    ELSE IF copy = "IrysService" THEN IrysEncodeGeohash(lat, lon, precision)
    ELSE SupabaseEncodeGeohash(lat, lon, precision)

GeoFrame ==
    UNCHANGED << discoveryVars, tipVars, storeVars, modeVars, serviceVars, settingsVars >>

\* encodeGeohash(lat, lon, precision) of one of the three copies returns
\* (one call is followed per behaviour: the functions keep no state).
EncodeCall(copy, lat, lon, precision) ==
    /\ geoOut = NoGeo
    /\ geoOut' = [NoGeo EXCEPT !.op = "encode", !.copy = copy, !.lat = lat, !.lon = lon,
                               !.precision = precision,
                               !.value = EncodeBy(copy, lat, lon, precision)]
    /\ GeoFrame

\* haversine is called on a pair of points, both ways round and on one
\* point with itself.
HaversineCall(a, b) ==
    /\ geoOut = NoGeo
    /\ geoOut' = [NoGeo EXCEPT !.op = "haversine", !.lat = a[1], !.lon = a[2],
                               !.lat2 = b[1], !.lon2 = b[2],
                               !.ab = Haversine(a[1], a[2], b[1], b[2]),
                               !.ba = Haversine(b[1], b[2], a[1], a[2]),
                               !.aa = Haversine(a[1], a[2], a[1], a[2])]
    /\ GeoFrame

NextGeo ==
    \/ \E copy \in EncoderCopies, lat \in GeoLats \cup BadLats,
          lon \in GeoLons \cup BadLons, precision \in 1..MaxPrecision :
             EncodeCall(copy, lat, lon, precision)
    \/ \E a \in NearPoints, b \in NearPoints : HaversineCall(a, b)

SpecGeo == InitDemo /\ [][NextGeo]_vars

Encoded == geoOut.op = "encode" /\ InRange(geoOut.lat, geoOut.lon)

\* C14: for an in-range point and a precision p >= 1 each copy of
\* encodeGeohash returns, and what it returns is p characters long, each one
\* of the 32 characters of the geohash alphabet.
C14_LengthAndAlphabet ==
    Encoded =>
        /\ Len(geoOut.value) = geoOut.precision
        /\ \A i \in 1..Len(geoOut.value) :
              \E k \in 1..32 : geoOut.value[i] = Chars[k]

C14_Witness ==
    /\ Encoded
    /\ geoOut.precision = MaxPrecision
    /\ geoOut.lat = 4200381
    /\ geoOut.lon = -13612425
    /\ geoOut.value = << "9", "q", "8", "y", "y", "k", "8" >>

\* C15: for an in-range point, the geohash a copy returns at precision q
\* begins, for every p <= q, with the geohash every copy returns at precision
\* p; so the 7-character geohash SupabaseService and IrysService store for a
\* point starts with the 5-character prefix MapScreen queries for it.
C15_PrefixNested ==
    Encoded =>
        /\ \A p \in 1..geoOut.precision, copy \in EncoderCopies :
              EncodeBy(copy, geoOut.lat, geoOut.lon, p) = SubSeq(geoOut.value, 1, p)
        /\ geoOut.precision = 7 /\ geoOut.copy # "MapScreen" =>
              StartsWith(geoOut.value, EncodeGeohash(geoOut.lat, geoOut.lon, 5))

C15_Witness ==
    /\ Encoded
    /\ geoOut.copy = "SupabaseService"
    /\ geoOut.precision = 7
    /\ geoOut.lat = 4200381
    /\ geoOut.lon = -13612425
    /\ EncodeGeohash(geoOut.lat, geoOut.lon, 5) = << "9", "q", "8", "y", "y" >>
    /\ StartsWith(geoOut.value, << "9", "q", "8", "y", "y" >>)

\* C16: a call of encodeGeohash with a latitude outside [-90, 90] or a
\* longitude outside [-180, 180] returns no geohash string.
C16_OutOfRangeRejected ==
    geoOut.op = "encode" /\ ~InRange(geoOut.lat, geoOut.lon) => geoOut.value = << >>

RECURSIVE RefAxisBit(_, _, _)
RefAxisBit(r, span, k) ==
    IF k = 1 THEN (IF 2 * r >= span THEN 1 ELSE 0)
    ELSE RefAxisBit(IF 2 * r >= span THEN 2 * r - span ELSE 2 * r, span, k - 1)

\* Bit n of the geohash: odd bits bisect the longitude, even bits the latitude.
RefBit(lat, lon, n) ==
    IF n % 2 = 1
    THEN RefAxisBit(lon + 180 * DegUnits, 360 * DegUnits, (n + 1) \div 2)
    ELSE RefAxisBit(lat + 90 * DegUnits, 180 * DegUnits, n \div 2)

RefChar(lat, lon, c) ==
    Chars[1 + 16 * RefBit(lat, lon, 5 * c - 4) + 8 * RefBit(lat, lon, 5 * c - 3)
            + 4 * RefBit(lat, lon, 5 * c - 2) + 2 * RefBit(lat, lon, 5 * c - 1)
            + RefBit(lat, lon, 5 * c)]

RefGeohash(lat, lon, precision) == [c \in 1..precision |-> RefChar(lat, lon, c)]

\* C22: for an in-range point each copy of encodeGeohash returns the
\* reference geohash: bit n of the result bisects the longitude when n is odd
\* and the latitude when n is even, counted through the whole string, it is 1
\* exactly when the coordinate is at or above the midpoint, and character c
\* is the alphabet entry indexed by bits 5c-4..5c, most significant first.
C22_EqualsReference ==
    Encoded => geoOut.value = RefGeohash(geoOut.lat, geoOut.lon, geoOut.precision)

\* The point (0, 0) lies on the first midpoint of both axes.
C22_Witness ==
    /\ Encoded
    /\ geoOut.copy = "IrysService"
    /\ geoOut.lat = 0 /\ geoOut.lon = 0
    /\ geoOut.precision = 3
    /\ geoOut.value = << "s", "0", "0" >>
    /\ RefGeohash(0, 0, 3) = << "s", "0", "0" >>

\* ------------------------------------------------- store history properties
TipsOf(store, id) == (CHOOSE p \in {store[i] : i \in 1..Len(store)} : p.id = id).tips

\* C17: in every step of the store the tips counter of every stored post is
\* at least 0 afterwards, and a post that is stored before and after the
\* step has a counter at least as large as before.
C17_TipsMonotone ==
    [][\A id \in Ids(userCreatedPosts') :
          /\ TipsOf(userCreatedPosts', id) >= 0
          /\ id \in Ids(userCreatedPosts) =>
                TipsOf(userCreatedPosts', id) >= TipsOf(userCreatedPosts, id)]_vars

KeepsPosts ==
    /\ Len(userCreatedPosts') >= Len(userCreatedPosts)
    /\ Ids(userCreatedPosts) \subseteq Ids(userCreatedPosts')

\* C18 as stated: no step of the store removes a post or reduces the number
\* of stored posts.
C18_AppendOnly == [][KeepsPosts]_vars

\* C18 as amended: every step of the store other than clear() keeps every
\* stored post and does not reduce their number; clear() removes them all.
C18_AppendOnlyButClear ==
    [][IF storeOp'.name = "clear" /\ storeOp' # storeOp
       THEN userCreatedPosts' = << >>
       ELSE KeepsPosts]_vars

\* Two posts are stored, and both are still stored after a tip on one.
C18_Witness ==
    /\ storeOp.name = "updatePostTips"
    /\ Len(storeOp.before) = 2
    /\ Ids(userCreatedPosts) = {"u1", "u2"}

\* ------------------------------------------------------------- app mode
StoredValues == {<< >>, << "demo" >>, << "real" >>, << "other" >>}

\* AppModeProvider as constructed: mode "demo", loading, and whatever an
\* earlier run left under MODE_STORAGE_KEY.
InitStartup ==
    /\ InitDiscovery /\ mode = "demo"
    /\ InitTip /\ InitStore /\ InitGeo /\ InitService /\ InitSettings
    /\ storage \in StoredValues
    /\ hasSelectedMode = FALSE
    /\ isLoading = TRUE
    /\ pendingModes = << >>
    /\ lastWritten = << >>

ModeFrame == UNCHANGED << tipVars, storeVars, geoVars, serviceVars >>

\* loadMode, from AsyncStorage.getItem (ok: it answered) to its finally block.
LoadMode(ok) ==
    /\ isLoading
    /\ IF ok /\ storage \in {<< "demo" >>, << "real" >>}
       THEN hasSelectedMode' = TRUE /\ ApplyMode(storage[1])
       ELSE UNCHANGED << hasSelectedMode, discoveryVars >>
    /\ isLoading' = FALSE
    /\ UNCHANGED << storage, pendingModes, lastWritten >>
    /\ UNCHANGED settingsVars
    /\ ModeFrame

\* setMode(m) up to its await; App renders nothing that could call it while
\* isLoading.
SetModeBegin(m) ==
    /\ ~isLoading
    /\ Len(pendingModes) < MaxPending
    /\ pendingModes' = Append(pendingModes, [mode |-> m, written |-> "pending"])
    /\ UNCHANGED << storage, hasSelectedMode, isLoading, lastWritten, discoveryVars >>
    /\ ModeFrame

SetModeCall(m) == SetModeBegin(m) /\ UNCHANGED settingsVars

IsOldestPending(i) ==
    /\ i \in 1..Len(pendingModes)
    /\ pendingModes[i].written = "pending"
    /\ \A j \in 1..(i - 1) : pendingModes[j].written # "pending"

\* AsyncStorage.setItem of the oldest unwritten call completes or fails.
SetItemDone(ok) ==
    \E i \in 1..Len(pendingModes) :
        /\ IsOldestPending(i)
        /\ storage' = IF ok THEN << pendingModes[i].mode >> ELSE storage
        /\ lastWritten' = IF ok THEN << pendingModes[i].mode >> ELSE lastWritten
        /\ pendingModes' = [pendingModes EXCEPT
                               ![i].written = IF ok THEN "ok" ELSE "failed"]
        /\ UNCHANGED << hasSelectedMode, isLoading, discoveryVars >>
        /\ UNCHANGED settingsVars
        /\ ModeFrame

\* Whether setMode goes on to setModeState after its await.
ResumeAppliesAlways(call) == TRUE
ResumeApplies(call) == call.written = "ok"

\* setMode after its await: setModeState and setHasSelectedMode, or the catch.
SetModeEnd ==
    /\ pendingModes # << >>
    /\ Head(pendingModes).written # "pending"
    /\ IF ResumeApplies(Head(pendingModes))
       THEN hasSelectedMode' = TRUE /\ ApplyMode(Head(pendingModes).mode)
       ELSE UNCHANGED << hasSelectedMode, discoveryVars >>
    /\ pendingModes' = Tail(pendingModes)
    /\ UNCHANGED << storage, isLoading, lastWritten >>
    /\ ModeFrame

SetModeResume == SetModeEnd /\ UNCHANGED settingsVars

NextMode ==
    \/ \E ok \in BOOLEAN : LoadMode(ok)
    \/ \E m \in Modes : SetModeCall(m)
    \/ \E ok \in BOOLEAN : SetItemDone(ok)
    \/ SetModeResume

SpecMode == InitStartup /\ [][NextMode]_vars

\* C19: after the startup load, the in-memory mode or hasSelectedMode change
\* only in the step that resumes a setMode call whose write to storage has
\* succeeded, and they change to that call's mode; and once no setMode call
\* is outstanding, the in-memory mode is the last value a setMode call wrote
\* successfully, which is the stored one.
C19_WriteThrough ==
    /\ [](~isLoading /\ pendingModes = << >> /\ lastWritten # << >> =>
             mode = lastWritten[1] /\ storage = lastWritten /\ hasSelectedMode)
    /\ [][~isLoading /\ (mode' # mode \/ hasSelectedMode' # hasSelectedMode) =>
             /\ pendingModes # << >>
             /\ Head(pendingModes).written = "ok"
             /\ mode' = Head(pendingModes).mode
             /\ hasSelectedMode']_vars

\* Stored "demo" at startup, then a setMode("real") that completed.
C19_Witness ==
    /\ ~isLoading
    /\ pendingModes = << >>
    /\ lastWritten = << "real" >>
    /\ storage = << "real" >>
    /\ mode = "real"

\* ------------------------------------------------- tip handler properties
TipStarted == tipOps' # tipOps

\* C21: a handleTip call made with no account selected, or with an amount
\* text that parses to NaN or to a value <= 0, ends in an error alert and
\* leaves isTipping, the transfers, the tips table, the demo store and the
\* posts table as they were, with no step of the operation pending.
C21_InvalidTipWritesNothing ==
    [][TipStarted /\ (\/ selectedAccount = << >>
                      \/ ParseInt(tipAmount).nan
                      \/ ParseInt(tipAmount).value <= 0) =>
          /\ alert' = "Error"
          /\ isTipping' = isTipping
          /\ tipPc' = "idle"
          /\ transfers' = transfers
          /\ tipsTable' = tipsTable
          /\ userCreatedPosts' = userCreatedPosts
          /\ supabasePosts' = supabasePosts
          /\ storeOp' = storeOp]_vars

\* A call with the text "-3" by a signed-in user has been rejected.
C21_Witness ==
    /\ tipOp.failedAt = "amount"
    /\ selectedAccount # << >>
    /\ tipAmount = << "-", "3" >>
    /\ alert = "Error"

RECURSIVE RecordedFor(_, _)
RecordedFor(rows, id) ==
    IF rows = << >> THEN 0
    ELSE (IF Head(rows).post_id = id THEN Head(rows).amount ELSE 0)
            + RecordedFor(Tail(rows), id)

\* C23: in demo mode, in every state, the amounts of the tip records kept
\* for a post of the demo store add up to its tips counter (a post is created
\* with counter 0).
C23_DemoTipsRecorded ==
    mode = "demo" =>
        \A i \in 1..Len(userCreatedPosts) :
            RecordedFor(tipsTable, userCreatedPosts[i].id) = userCreatedPosts[i].tips

\* C24: recordTip writes the tip row before it updates the counter, and
\* after a failed insert it issues no update: the posts table changes only
\* in the update step of a tip whose row is in the tips table, a tip whose
\* insert failed ends with the counter untouched, and in every state the
\* tips counter of a post is at most the sum of the tip rows of that post.
C24_InsertBeforeUpdate ==
    /\ [](/\ tipPc = "update" => tipOp.rows = 1
          /\ tipOp.failedAt = "insert" => tipOp.rows = 0 /\ tipOp.counter = 0
          /\ \A i \in 1..Len(supabasePosts) :
                supabasePosts[i].tips <= RecordedFor(tipsTable, supabasePosts[i].id))
    /\ [][TotalTips(supabasePosts') # TotalTips(supabasePosts) =>
             /\ tipPc = "update"
             /\ tipsTable # << >>
             /\ tipsTable[Len(tipsTable)].post_id = currentPost[1].id
             /\ tipsTable[Len(tipsTable)].amount = tipLocal[1].amount]_vars

\* One tip was recorded in full, and the insert of a second one failed.
C24_Witness ==
    /\ tipOp.failedAt = "insert"
    /\ tipPc = "idle"
    /\ Len(tipsTable) = 1
    /\ TotalTips(supabasePosts) = tipsTable[1].amount
    /\ Len(transfers) = 2

\* ------------------------------------------------------- query properties
Queried == queryOut.op = "queryPostsByGeohash"

C26_UnsubscribeExact ==
    /\ [](round.ran # "" => round.registered)
    /\ [][Len(listeners') >= Len(listeners) - 1]_vars

\* ------------------------------------------------- store update properties
TipsUpdated == storeOp.name = "updatePostTips"

\* C27: after updatePostTips(postId, amount) the store holds the posts it
\* held before, in the same order, the post with id postId with amount added
\* to its tips and nothing else changed, every other post as it was; when no
\* post has that id the store is as before and no listener was called; and
\* the call leaves the listener list as it was.
C27_UpdateFrame ==
    /\ [](TipsUpdated =>
             /\ Len(userCreatedPosts) = Len(storeOp.before)
             /\ \A i \in 1..Len(storeOp.before) :
                   userCreatedPosts[i] =
                      IF storeOp.before[i].id = storeOp.id
                      THEN [storeOp.before[i] EXCEPT
                               !.tips = storeOp.before[i].tips + storeOp.amount]
                      ELSE storeOp.before[i]
             /\ storeOp.id \notin Ids(storeOp.before) =>
                   /\ userCreatedPosts = storeOp.before
                   /\ \A l \in ListenerNames : calls[l] = 0)
    /\ [][storeOp'.name = "updatePostTips" /\ storeOp' # storeOp =>
             listeners' = listeners]_vars

\* The older of two stored posts has had 1 taken off and then put back.
C27_Witness ==
    /\ TipsUpdated
    /\ Len(userCreatedPosts) = 2
    /\ storeOp.id = userCreatedPosts[2].id
    /\ storeOp.amount = 1
    /\ storeOp.before[2].tips = -1
    /\ userCreatedPosts[2].tips = 0
    /\ userCreatedPosts[1] = storeOp.before[1]

\* C28: in demo mode, a handleTip call that reports Success for an amount n
\* on the post of the detail screen leaves the store such that a discovery
\* refresh shows that post with a tips value n greater than a refresh made
\* just before the call.
C28_DemoTipShown ==
    [][TipStarted /\ mode = "demo" /\ alert' = "Success" =>
          TipsOf(DemoCombined(userCreatedPosts', Loc(0)), currentPost[1].id) =
             TipsOf(DemoCombined(userCreatedPosts, Loc(0)), currentPost[1].id)
                + ParseInt(tipAmount).value]_vars

\* ------------------------------------------------------- mode selection
SettingsFrame == UNCHANGED << modeVars, discoveryVars >> /\ ModeFrame

\* handleModeChange: which modes are asked about before setMode is called.
NeedsConfirmationNever(newMode) == FALSE
NeedsConfirmation(newMode) == newMode = "real"

\* SettingsScreen.handleModeChange(newMode); the screen is under the startup
\* modal while that is shown.
HandleModeChange(newMode) ==
    /\ ~isLoading
    /\ ~modal.visible
    /\ handler' = [name |-> "handleModeChange", arg |-> newMode]
    /\ UNCHANGED modal
    /\ IF newMode = mode
       THEN UNCHANGED << settings, callers >> /\ SettingsFrame
       ELSE IF NeedsConfirmation(newMode)
       THEN /\ settings' = [showConfirmation |-> TRUE, pendingMode |-> << newMode >>]
            /\ UNCHANGED callers
            /\ SettingsFrame
       ELSE /\ SetModeBegin(newMode)
            /\ callers' = Append(callers, "handleModeChange")
            /\ UNCHANGED settings

\* SettingsScreen.confirmRealMode up to its await (the dialog's Confirm button).
ConfirmRealMode ==
    /\ ~isLoading
    /\ ~modal.visible
    /\ settings.showConfirmation
    /\ handler' = [name |-> "confirmRealMode", arg |-> ""]
    /\ UNCHANGED << modal, settings >>
    /\ IF settings.pendingMode # << >>
       THEN /\ SetModeBegin(settings.pendingMode[1])
            /\ callers' = Append(callers, "confirmRealMode")
       ELSE UNCHANGED callers /\ SettingsFrame

\* SettingsScreen.cancelRealMode (the dialog's Cancel button or the back key).
CancelRealMode ==
    /\ ~isLoading
    /\ ~modal.visible
    /\ settings.showConfirmation
    /\ handler' = [name |-> "cancelRealMode", arg |-> ""]
    /\ settings' = NoSettings
    /\ UNCHANGED << modal, callers >>
    /\ SettingsFrame

\* StartupModeModal.handleModeSelect(m): a card of the selection view.
ModalHandleModeSelect(m) ==
    /\ ~isLoading
    /\ modal.visible
    /\ ~modal.showConfirmation
    /\ handler' = [name |-> "handleModeSelect", arg |-> m]
    /\ modal' = [modal EXCEPT !.selectedMode = m,
                              !.showConfirmation = (m = "real")]
    /\ UNCHANGED << settings, callers >>
    /\ SettingsFrame

\* StartupModeModal.handleConfirmRealMode: onSelectMode("real"), which is
\* App's handleModeSelect up to its await, then setShowConfirmation(false).
ModalConfirmRealMode ==
    /\ modal.visible
    /\ modal.showConfirmation
    /\ handler' = [name |-> "handleConfirmRealMode", arg |-> ""]
    /\ modal' = [modal EXCEPT !.showConfirmation = FALSE]
    /\ SetModeBegin("real")
    /\ callers' = Append(callers, "handleModeSelect")
    /\ UNCHANGED settings

\* StartupModeModal.handleCancelRealMode.
ModalCancelRealMode ==
    /\ ~isLoading
    /\ modal.visible
    /\ modal.showConfirmation
    /\ handler' = [name |-> "handleCancelRealMode", arg |-> ""]
    /\ modal' = [modal EXCEPT !.showConfirmation = FALSE, !.selectedMode = "demo"]
    /\ UNCHANGED << settings, callers >>
    /\ SettingsFrame

\* StartupModeModal.handleDemoConfirm: the button shown while demo is selected.
ModalDemoConfirm ==
    /\ modal.visible
    /\ ~modal.showConfirmation
    /\ modal.selectedMode = "demo"
    /\ handler' = [name |-> "handleDemoConfirm", arg |-> ""]
    /\ SetModeBegin("demo")
    /\ callers' = Append(callers, "handleModeSelect")
    /\ UNCHANGED << modal, settings >>

\* setMode returns to the handler that awaits it, which runs to its end:
\* confirmRealMode clears its request, App's handleModeSelect hides the modal.
SelectionResume ==
    /\ SetModeEnd
    /\ callers' = Tail(callers)
    /\ settings' = IF Head(callers) = "confirmRealMode" THEN NoSettings ELSE settings
    /\ modal' = IF Head(callers) = "handleModeSelect"
                THEN [modal EXCEPT !.visible = FALSE]
                ELSE modal
    /\ UNCHANGED handler

NextSelection ==
    \/ \E m \in Modes : HandleModeChange(m)
    \/ ConfirmRealMode
    \/ CancelRealMode
    \/ \E m \in Modes : ModalHandleModeSelect(m)
    \/ ModalConfirmRealMode
    \/ ModalCancelRealMode
    \/ ModalDemoConfirm
    \/ \E ok \in BOOLEAN : SetItemDone(ok)
    \/ SelectionResume

SpecSelection == Init /\ [][NextSelection]_vars

SetModeCalled == Len(pendingModes') > Len(pendingModes)
\* A step of the handler called name (a step that returns from setMode
\* shortens pendingModes, a storage answer leaves the components alone).
Ran(name) ==
    /\ handler'.name = name
    /\ settingsVars' # settingsVars
    /\ Len(pendingModes') >= Len(pendingModes)

C30_OneTipInFlight ==
    /\ [](isTipping <=> tipPc # "idle")
    /\ [][TipStarted => ~isTipping /\ tipPc = "idle"]_vars
    /\ [][tipPc # "idle" /\ tipPc' = "idle" => ~isTipping']_vars
    /\ (isTipping ~> (~isTipping /\ tipPc = "idle"))

\* A first tip failed before any transfer was sent, the flag was cleared,
\* and a second tip is now in flight.
C30_Witness ==
    /\ tipOps = 2
    /\ isTipping
    /\ tipPc = "send"
    /\ transfers = << >>
====
